---- MODULE Spec2Model ----
(***************************************************************************)
(* SmartPark frontend: the cookie based access-token / refresh-token      *)
(* session renewal of the fetch wrappers, the polling components that     *)
(* load establishments and slots, the login / register server actions and *)
(* the availability labels of the slot cards.                             *)
(*                                                                         *)
(* JavaScript strings are sequences of one-character strings.  The empty  *)
(* sequence also stands for null / undefined wherever the code only tests *)
(* truthiness (token ? ... : ..., !token, value || null).                 *)
(***************************************************************************)
EXTENDS Integers, Sequences, FiniteSets, TLC

VARIABLES
    \* the cookie store and the activations of the fetch wrappers
    cookies, calls,
    \* a polling component: which one, where it is rendered, its life cycle,
    \* its setInterval timer and the load calls it has started
    comp, pathname, phase, interval, started, pending, ticks,
    \* its React state, the data its state was converted from (shown) and the
    \* handler that ran last (last)
    lots, slots, slotTypes, establishments, alertOpen, alertProps, shown, last,
    \* the activation of a server action (login, register, getUser)
    auth,
    \* a page request on its way through the route guard (middleware.ts)
    nav,
    \* the login / register page: its submit handler, its navigation timer
    page

fetchVars == <<cookies, calls>>

authVars == <<auth>>

navVars == <<nav>>

pageVars == <<page>>

compVars == <<comp, pathname, phase, interval, started, pending, ticks,
              lots, slots, slotTypes, establishments, alertOpen, alertProps,
              shown, last>>

vars == <<fetchVars, authVars, compVars, navVars, pageVars>>

\* what the fetch wrappers leave alone, and what the components leave alone
notFetch == <<authVars, compVars, navVars, pageVars>>

notComp == <<fetchVars, authVars, navVars, pageVars>>

(***************************************************************************)
(* Bounds                                                                  *)
(***************************************************************************)
MaxTokLen == 2
MaxCalls == 1
MaxLots == 1
MaxSlots == 1
MaxLoads == 2
MaxConcurrent == 2

\* no server action
IdleAuth == [kind |-> "none", pc |-> "idle"]

\* no page request
NoRequest == [pc |-> "none"]

\* a login / register page on which nothing was submitted
IdlePage == [pc |-> "idle", timer |-> 0, replaced |-> FALSE, threw |-> FALSE]

(***************************************************************************)
(* Strings and cookies                                                     *)
(***************************************************************************)
Chars == {"a", "="}

Strings == UNION {[1..k -> Chars] : k \in 0..MaxTokLen}

Null == <<>>

Truthy(s) == s # Null

NoCookie == [set |-> FALSE, value |-> <<>>]

Cookie(v) == [set |-> TRUE, value |-> v]

CookieStates == {NoCookie} \cup {Cookie(v) : v \in Strings}

RefreshCookieStates == {NoCookie, Cookie(<<>>), Cookie(<<"a">>)}

\* cookieStore.get("accessToken")?.value || null
getAccessToken(jar) == IF jar.accessToken.set THEN jar.accessToken.value ELSE Null

\* cookieStore.get("refreshToken")?.value
getRefreshToken(jar) == IF jar.refreshToken.set THEN jar.refreshToken.value ELSE Null

\* document.cookie of the browser: "name=value" pairs of the cookies that are
\* not HttpOnly (accessToken is written with httpOnly: false, refreshToken
\* with httpOnly: true).  The string is kept already split at "; ".
documentCookie(jar) ==
    IF jar.accessToken.set
    THEN << <<"accessToken", "=">> \o jar.accessToken.value >>
    ELSE << >>

\* s.split("=")[1]: the text between the first and the second "=" of s
\* (s contains an "=").
RECURSIVE UpToEq(_)
UpToEq(s) ==
    IF s = <<>> \/ Head(s) = "=" THEN <<>> ELSE <<Head(s)>> \o UpToEq(Tail(s))

RECURSIVE AfterEq(_)
AfterEq(s) ==
    IF s = <<>> THEN <<>> ELSE IF Head(s) = "=" THEN Tail(s) ELSE AfterEq(Tail(s))

SplitEq1(s) == UpToEq(AfterEq(s))

\* c.startsWith(name + "=")
StartsWithName(c, name) == Len(c) >= 2 /\ c[1] = name /\ c[2] = "="

\* document.cookie.split("; ").find(c => c.startsWith(name + "="))?.split("=")[1] || null
getCookie(doc, name) ==
    LET hits == {i \in 1..Len(doc) : StartsWithName(doc[i], name)}
    IN IF hits = {} THEN Null
       ELSE LET first == CHOOSE i \in hits : \A j \in hits : i <= j
            IN SplitEq1(doc[first])

(***************************************************************************)
(* Requests                                                                *)
(***************************************************************************)
NoAuth == [scheme |-> "none", cred |-> <<>>]

Bearer(t) == [scheme |-> "Bearer", cred |-> t]

CallerAuth == [scheme |-> "Caller", cred |-> <<>>]

\* options: the caller's RequestInit; only headers.Authorization matters here
\* (the later spread of options.headers overrides the wrapper's header).
OptionsSet == {[auth |-> FALSE], [auth |-> TRUE]}

\* headers: { ...(token ? { Authorization: `Bearer ${token}` } : {}),
\*            ...(options.headers || {}) }
baseFetch(token, options) ==
    [to |-> "endpoint",
     auth |-> IF options.auth THEN CallerAuth
              ELSE IF Truthy(token) THEN Bearer(token) ELSE NoAuth,
     body |-> <<>>]

\* apiFetch in services/server.tsx builds the same request inline
apiFetchFirst(token, options) ==
    [to |-> "endpoint",
     auth |-> IF options.auth THEN CallerAuth
              ELSE IF Truthy(token) THEN Bearer(token) ELSE NoAuth,
     body |-> <<>>]

\* the retry of apiFetch: Authorization: `Bearer ${token}`, then options.headers
apiFetchRetry(token, options) ==
    [to |-> "endpoint",
     auth |-> IF options.auth THEN CallerAuth ELSE Bearer(token),
     body |-> <<>>]

\* POST /api/accounts/auth/refresh/ with body { refreshToken }
refreshRequest(refresh) == [to |-> "refresh", auth |-> NoAuth, body |-> refresh]

(***************************************************************************)
(* The backend's answers                                                   *)
(***************************************************************************)
Statuses == {200, 401, 500}

\* Response.ok
Ok(status) == status >= 200 /\ status <= 299

NoOutcome == [k |-> "none", access |-> <<>>]

\* data.access of an ok answer of the refresh endpoint: a token, or the empty
\* string, which also stands for a missing field.
IssuedTokens == {<<>>, <<"a">>, <<"a", "=">>}

\* What the refresh request can come to: the fetch rejects, a non-ok answer,
\* an ok answer whose body is no JSON, an ok answer with data.access.
RefreshOutcomes ==
    {[k |-> x, access |-> <<>>] : x \in {"rejected", "notok", "badjson"}}
        \cup {[k |-> "ok", access |-> t] : t \in IssuedTokens}

(***************************************************************************)
(* One call of a fetch wrapper                                             *)
(***************************************************************************)
Calls == 1..MaxCalls

Pending == [how |-> "pending", which |-> 0]

Returned(n) == [how |-> "response", which |-> n]

Thrown == [how |-> "throw", which |-> 0]

\* A call's record: the wrapper (kind), its options argument, where it stands
\* (pc), its local token, and what it did: the requests it sent (reqs), the
\* answers it got (res1, rfr, res2), what it returned (ret), the cookies it
\* wrote (wrote), and the accessToken cookie as it was when it was called (jar0).
IdleCall ==
    [kind |-> "none", options |-> [auth |-> FALSE], pc |-> "idle", token |-> Null,
     reqs |-> <<>>, res1 |-> 0, rfr |-> NoOutcome, res2 |-> 0, ret |-> Pending,
     wrote |-> <<>>, jar0 |-> NoCookie]

InitFetch ==
    /\ cookies \in [accessToken : CookieStates, refreshToken : RefreshCookieStates]
    /\ calls = [c \in Calls |-> IdleCall]
    /\ auth = IdleAuth
    /\ nav = NoRequest
    /\ page = IdlePage
    /\ comp = "none" /\ pathname = "/" /\ phase = "initial"
    /\ interval = [active |-> FALSE, ms |-> 0]
    /\ started = <<>> /\ pending = {} /\ ticks = 0
    /\ lots = <<>> /\ slots = <<>> /\ slotTypes = <<>>
    /\ establishments = [kind |-> "list", items |-> <<>>]
    /\ alertOpen = FALSE
    /\ alertProps = [message |-> "", timeDuration |-> 0, type |-> "success"]
    /\ shown = [kind |-> "none"] /\ last = [op |-> "none"]

\* let token = await getAccessToken(); let res = await baseFetch(endpoint, token, options)
apiServerFetch_start(c, options) ==
    /\ calls[c].pc = "idle"
    /\ LET token == getAccessToken(cookies)
       IN calls' = [calls EXCEPT ![c] =
              [@ EXCEPT !.kind = "apiServerFetch", !.options = options,
                        !.jar0 = cookies.accessToken,
                        !.token = token, !.pc = "first",
                        !.reqs = <<baseFetch(token, options)>>]]
    /\ UNCHANGED cookies
    /\ UNCHANGED notFetch

\* let token = await getAccessToken(); const res = await fetch(...)
apiFetch_start(c, options) ==
    /\ calls[c].pc = "idle"
    /\ LET token == getAccessToken(cookies)
       IN calls' = [calls EXCEPT ![c] =
              [@ EXCEPT !.kind = "apiFetch", !.options = options,
                        !.jar0 = cookies.accessToken,
                        !.token = token, !.pc = "first",
                        !.reqs = <<apiFetchFirst(token, options)>>]]
    /\ UNCHANGED cookies
    /\ UNCHANGED notFetch

\* const token = getCookie("accessToken"); const res = await baseFetch(endpoint, token, options)
apiClientFetch_start(c, options) ==
    /\ calls[c].pc = "idle"
    /\ LET token == getCookie(documentCookie(cookies), "accessToken")
       IN calls' = [calls EXCEPT ![c] =
              [@ EXCEPT !.kind = "apiClientFetch", !.options = options,
                        !.jar0 = cookies.accessToken,
                        !.token = token, !.pc = "first",
                        !.reqs = <<baseFetch(token, options)>>]]
    /\ UNCHANGED cookies
    /\ UNCHANGED notFetch

\* The awaited fetch of a wrapper rejects (network error): no wrapper catches it.
fetch_rejects(c) ==
    /\ calls[c].pc \in {"first", "second"}
    /\ calls' = [calls EXCEPT ![c] = [@ EXCEPT !.pc = "done", !.ret = Thrown]]
    /\ UNCHANGED cookies
    /\ UNCHANGED notFetch

\* a refreshAccessToken that leaves the refresh to a call whose refresh
\* request is in flight
refreshAccessToken_begin_shared(call, status) ==
    LET refresh == getRefreshToken(cookies)
    IN IF ~Truthy(refresh) \/ (\E d \in DOMAIN calls : calls[d].pc = "refresh")
       THEN [call EXCEPT !.res1 = status, !.token = Null,
                         !.pc = "done", !.ret = Returned(1)]
       ELSE [call EXCEPT !.res1 = status, !.pc = "refresh",
                         !.reqs = Append(@, refreshRequest(refresh))]

\* a refreshAccessToken that sends its request without looking at the cookie
refreshAccessToken_begin_unchecked(call, status) ==
    [call EXCEPT !.res1 = status, !.pc = "refresh",
                 !.reqs = Append(@, refreshRequest(getRefreshToken(cookies)))]

\* The part of refreshAccessToken before its fetch: without a refreshToken
\* cookie it returns null and the wrapper returns res; otherwise the refresh
\* request is sent.
refreshAccessToken_begin(call, status) ==
    LET refresh == getRefreshToken(cookies)
    IN IF ~Truthy(refresh)
       THEN [call EXCEPT !.res1 = status, !.token = Null,
                         !.pc = "done", !.ret = Returned(1)]
       ELSE [call EXCEPT !.res1 = status, !.pc = "refresh",
                         !.reqs = Append(@, refreshRequest(refresh))]

\* a wrapper that renews the session on every non-ok status
serverWrapper_first_anyError(c, status) ==
    /\ calls[c].pc = "first"
    /\ calls[c].kind \in {"apiServerFetch", "apiFetch"}
    /\ calls' = [calls EXCEPT ![c] =
           IF ~Ok(status)
           THEN refreshAccessToken_begin(@, status)
           ELSE [@ EXCEPT !.res1 = status, !.pc = "done", !.ret = Returned(1)]]
    /\ UNCHANGED cookies
    /\ UNCHANGED notFetch

\* apiServerFetch and apiFetch after the first response:
\* if (res.status === 401) { token = await refreshAccessToken(); ... } return res
serverWrapper_first(c, status) ==
    /\ calls[c].pc = "first"
    /\ calls[c].kind \in {"apiServerFetch", "apiFetch"}
    /\ calls' = [calls EXCEPT ![c] =
           IF status = 401
           THEN refreshAccessToken_begin(@, status)
           ELSE [@ EXCEPT !.res1 = status, !.pc = "done", !.ret = Returned(1)]]
    /\ UNCHANGED cookies
    /\ UNCHANGED notFetch

apiClientFetch_first_refreshing(c, status) ==
    /\ calls[c].pc = "first"
    /\ calls[c].kind = "apiClientFetch"
    /\ calls' = [calls EXCEPT ![c] =
           IF status = 401
           THEN refreshAccessToken_begin(@, status)
           ELSE [@ EXCEPT !.res1 = status, !.pc = "done", !.ret = Returned(1)]]
    /\ UNCHANGED cookies
    /\ UNCHANGED notFetch

apiClientFetch_first_keepsToken(c, status) ==
    /\ calls[c].pc = "first"
    /\ calls[c].kind = "apiClientFetch"
    /\ calls' = [calls EXCEPT ![c] =
           IF status = 401
           THEN [@ EXCEPT !.res1 = status, !.pc = "second",
                          !.reqs = Append(@, baseFetch(calls[c].token, calls[c].options))]
           ELSE [@ EXCEPT !.res1 = status, !.pc = "done", !.ret = Returned(1)]]
    /\ UNCHANGED cookies
    /\ UNCHANGED notFetch

\* apiClientFetch after the first response:
\* if (res.status === 401) return baseFetch(endpoint, null, options); return res
apiClientFetch_first(c, status) ==
    /\ calls[c].pc = "first"
    /\ calls[c].kind = "apiClientFetch"
    /\ calls' = [calls EXCEPT ![c] =
           IF status = 401
           THEN [@ EXCEPT !.res1 = status, !.pc = "second",
                          !.reqs = Append(@, baseFetch(Null, calls[c].options))]
           ELSE [@ EXCEPT !.res1 = status, !.pc = "done", !.ret = Returned(1)]]
    /\ UNCHANGED cookies
    /\ UNCHANGED notFetch

retryRequest_staleToken(call, token) ==
    IF call.kind = "apiFetch"
    THEN apiFetchRetry(call.token, call.options)
    ELSE baseFetch(call.token, call.options)

\* The retry request of a server wrapper with the renewed token
retryRequest(call, token) ==
    IF call.kind = "apiFetch"
    THEN apiFetchRetry(token, call.options)
    ELSE baseFetch(token, call.options)

\* a refresh that rotates the refreshToken cookie too
setAccessToken_rotating(jar, access) ==
    [accessToken |-> Cookie(access), refreshToken |-> Cookie(access)]

\* cookieStore.set("accessToken", data.access, {...}) of refreshAccessToken
setAccessToken(jar, access) == [jar EXCEPT !.accessToken = Cookie(access)]

\* refreshAccessToken of services/api/server.ts from the answer of its fetch
\* on, and the rest of apiServerFetch: a rejected fetch and a failing
\* res.json() propagate to the caller of apiServerFetch.
apiServerFetch_refreshed(c, outcome) ==
    /\ calls[c].pc = "refresh"
    /\ calls[c].kind = "apiServerFetch"
    /\ IF outcome.k \in {"rejected", "badjson"}
       THEN /\ calls' = [calls EXCEPT ![c] =
                   [@ EXCEPT !.rfr = outcome, !.pc = "done", !.ret = Thrown]]
            /\ UNCHANGED cookies
       ELSE IF outcome.k = "notok"
       THEN /\ calls' = [calls EXCEPT ![c] =
                   [@ EXCEPT !.rfr = outcome, !.token = Null,
                             !.pc = "done", !.ret = Returned(1)]]
            /\ UNCHANGED cookies
       ELSE /\ cookies' = setAccessToken(cookies, outcome.access)
            /\ calls' = [calls EXCEPT ![c] =
                   IF ~Truthy(outcome.access)
                   THEN [@ EXCEPT !.rfr = outcome, !.token = outcome.access,
                                  !.wrote = Append(@, <<"accessToken", outcome.access>>),
                                  !.pc = "done", !.ret = Returned(1)]
                   ELSE [@ EXCEPT !.rfr = outcome, !.token = outcome.access,
                                  !.wrote = Append(@, <<"accessToken", outcome.access>>),
                                  !.pc = "second",
                                  !.reqs = Append(@, retryRequest(calls[c], outcome.access))]]
    /\ UNCHANGED notFetch

\* refreshAccessToken of services/server.tsx from the answer of its fetch on,
\* and the rest of apiFetch: its try/catch turns a rejected fetch and a
\* failing res.json() into null.
apiFetch_refreshed(c, outcome) ==
    /\ calls[c].pc = "refresh"
    /\ calls[c].kind = "apiFetch"
    /\ IF outcome.k \in {"rejected", "badjson", "notok"}
       THEN /\ calls' = [calls EXCEPT ![c] =
                   [@ EXCEPT !.rfr = outcome, !.token = Null,
                             !.pc = "done", !.ret = Returned(1)]]
            /\ UNCHANGED cookies
       ELSE /\ cookies' = setAccessToken(cookies, outcome.access)
            /\ calls' = [calls EXCEPT ![c] =
                   IF ~Truthy(outcome.access)
                   THEN [@ EXCEPT !.rfr = outcome, !.token = outcome.access,
                                  !.wrote = Append(@, <<"accessToken", outcome.access>>),
                                  !.pc = "done", !.ret = Returned(1)]
                   ELSE [@ EXCEPT !.rfr = outcome, !.token = outcome.access,
                                  !.wrote = Append(@, <<"accessToken", outcome.access>>),
                                  !.pc = "second",
                                  !.reqs = Append(@, retryRequest(calls[c], outcome.access))]]
    /\ UNCHANGED notFetch

\* a wrapper that renews the session again when the repeat is answered 401
wrapper_second_retrying(c, status) ==
    /\ calls[c].pc = "second"
    /\ calls' = [calls EXCEPT ![c] =
           IF status = 401 /\ calls[c].kind # "apiClientFetch"
           THEN [@ EXCEPT !.res2 = status, !.pc = "refresh",
                          !.reqs = Append(@, refreshRequest(getRefreshToken(cookies)))]
           ELSE [@ EXCEPT !.res2 = status, !.pc = "done", !.ret = Returned(2)]]
    /\ UNCHANGED cookies
    /\ UNCHANGED notFetch

\* The answer to the second request is what the wrapper returns.
wrapper_second(c, status) ==
    /\ calls[c].pc = "second"
    /\ calls' = [calls EXCEPT ![c] =
           [@ EXCEPT !.res2 = status, !.pc = "done", !.ret = Returned(2)]]
    /\ UNCHANGED cookies
    /\ UNCHANGED notFetch

NextFetch ==
    \E c \in Calls :
        \/ \E o \in OptionsSet : apiServerFetch_start(c, o)
        \/ \E o \in OptionsSet : apiFetch_start(c, o)
        \/ \E o \in OptionsSet : apiClientFetch_start(c, o)
        \/ \E s \in Statuses : serverWrapper_first(c, s)
        \/ \E s \in Statuses : apiClientFetch_first(c, s)
        \/ \E r \in RefreshOutcomes : apiServerFetch_refreshed(c, r)
        \/ \E r \in RefreshOutcomes : apiFetch_refreshed(c, r)
        \/ \E s \in Statuses : wrapper_second(c, s)
        \/ fetch_rejects(c)

(***************************************************************************)
(* Server wrappers called side by side (Promise.all, parallel rendering):  *)
(* every await is a point where another call may run.                      *)
(***************************************************************************)
Concurrent == 1..MaxConcurrent

InitPair ==
    /\ cookies \in [accessToken : {NoCookie, Cookie(<<"a">>)},
                    refreshToken : {NoCookie, Cookie(<<"a">>)}]
    /\ calls = [c \in Concurrent |-> IdleCall]
    /\ auth = IdleAuth
    /\ nav = NoRequest
    /\ page = IdlePage
    /\ comp = "none" /\ pathname = "/" /\ phase = "initial"
    /\ interval = [active |-> FALSE, ms |-> 0]
    /\ started = <<>> /\ pending = {} /\ ticks = 0
    /\ lots = <<>> /\ slots = <<>> /\ slotTypes = <<>>
    /\ establishments = [kind |-> "list", items |-> <<>>]
    /\ alertOpen = FALSE
    /\ alertProps = [message |-> "", timeDuration |-> 0, type |-> "success"]
    /\ shown = [kind |-> "none"] /\ last = [op |-> "none"]

\* The callers of the repository pass no options.
NoOptions == [auth |-> FALSE]

NextPair ==
    \E c \in Concurrent :
        \/ apiServerFetch_start(c, NoOptions)
        \/ apiFetch_start(c, NoOptions)
        \/ \E s \in Statuses : serverWrapper_first(c, s)
        \/ \E r \in RefreshOutcomes : apiServerFetch_refreshed(c, r)
        \/ \E r \in RefreshOutcomes : apiFetch_refreshed(c, r)
        \/ \E s \in Statuses : wrapper_second(c, s)
        \/ fetch_rejects(c)

(***************************************************************************)
(* The establishment service: what a request through apiClientFetch comes  *)
(* to, and what the service hands to the component                         *)
(***************************************************************************)
\* JSON null; it also stands for the other falsy bodies (false, 0, "")
JNull == [kind |-> "null"]

\* An error body such as { "detail": "..." }: an object without a lots field
ErrorBody == [kind |-> "object", detail |-> "detail"]

\* { error: "Erro desconhecido" }
UnknownError == [kind |-> "object", error |-> "Erro desconhecido"]

\* The TypeError of a rejected fetch, the SyntaxError of response.json()
ErrorInstance == [kind |-> "Error"]

\* A body on which response.json() rejects
NotJson == [kind |-> "notjson"]

\* !data
JsTruthy(v) == v.kind # "null"

SlotTypeNames == {"CAR"}

BackendStatuses == {"FREE", "OCCUPIED"}

LotCodeOf(i) == <<"L", i>>

SlotCodeOf(j) == <<"V", j>>

\* lotValue.slots = { V001: { slot_type, status }, ... } in key order
SlotMaps ==
    UNION {[1..n -> [slot_type : SlotTypeNames, status : BackendStatuses]] : n \in 0..MaxSlots}

\* data.lots = { L01: { lot_name, slots }, ... } in key order
LotMaps ==
    UNION {[1..n -> [lot_name : {"Piso"}, slots : SlotMaps]] : n \in 0..MaxLots}

\* The body of GET /catalog/public/establishments/<id>/lots/
LotsPayloads == {[kind |-> "lots", establishment_id |-> "7", lots |-> m] : m \in LotMaps}

\* The body of GET /catalog/public/establishments/
ListPayloads ==
    {[kind |-> "list", items |-> xs] : xs \in {<<>>, <<"E1">>, <<"E1", "E2">>}}

Rejected == [k |-> "rejected"]

Response(status, body) == [k |-> "response", status |-> status, body |-> body]

\* What apiClientFetch hands to the service: a rejected fetch, a non-ok
\* response with an error body, an ok response with a body.
Outcomes(payloads) ==
    {Rejected}
        \cup {Response(s, b) : s \in {401, 500}, b \in {NotJson, JNull, ErrorBody}}
        \cup {Response(200, b) : b \in payloads \cup {NotJson, JNull}}

\* The request failed: a rejected fetch or a non-ok HTTP response
Failed(outcome) == outcome.k = "rejected" \/ ~Ok(outcome.status)

\* try { if (!response.ok) { const errorData = await response.json().catch(() => null);
\*         throw errorData || { error: "Erro desconhecido" }; }
\*       return await response.json(); } catch (error) { return error; }
serviceResult(outcome) ==
    IF outcome.k = "rejected" THEN ErrorInstance
    ELSE IF ~Ok(outcome.status)
    THEN LET errorData == IF outcome.body = NotJson THEN JNull ELSE outcome.body
         IN IF JsTruthy(errorData) THEN errorData ELSE UnknownError
    ELSE IF outcome.body = NotJson THEN ErrorInstance
    ELSE outcome.body

list_establishments(outcome) == serviceResult(outcome)

list_establishment_by_lot(outcome) == serviceResult(outcome)

(***************************************************************************)
(* loadPark: the conversion of the lots payload                            *)
(***************************************************************************)
\* Object.entries(data.lots).map(([lotCode, lotValue]) => ({ ... }))
lotsConverted(data) ==
    [i \in 1..Len(data.lots) |->
        [id_lot |-> LotCodeOf(i), id_establishment |-> data.establishment_id,
         name |-> data.lots[i].lot_name, lot_code |-> LotCodeOf(i)]]

slotOf(i, j, slotData) ==
    [id_slot |-> SlotCodeOf(j), id_lot |-> LotCodeOf(i), slot_code |-> SlotCodeOf(j),
     id_slot_type |-> slotData.slot_type, status |-> (slotData.status = "FREE")]

\* the slots of lot i, in key order
slotsOfLot(data, i) ==
    [j \in 1..Len(data.lots[i].slots) |-> slotOf(i, j, data.lots[i].slots[j])]

\* the two nested forEach loops pushing to slotsConverted, lots 1..n
RECURSIVE slotsUpTo(_, _)
slotsUpTo(data, n) ==
    IF n = 0 THEN <<>> ELSE slotsUpTo(data, n - 1) \o slotsOfLot(data, n)

slotsConverted(data) == slotsUpTo(data, Len(data.lots))

\* if (!slotTypesConvertedMap[slot_type]) slotTypesConvertedMap[slot_type] = {...};
\* Object.values(slotTypesConvertedMap): one entry per type, in order of first use
RECURSIVE typesUpTo(_, _)
typesUpTo(converted, n) ==
    IF n = 0 THEN <<>>
    ELSE LET before == typesUpTo(converted, n - 1)
             t == converted[n].id_slot_type
         IN IF \E k \in 1..Len(before) : before[k].id_slot_type = t
            THEN before
            ELSE Append(before, [id_slot_type |-> t, name |-> t])

slotTypesConverted(data) ==
    typesUpTo(slotsConverted(data), Len(slotsConverted(data)))

\* Object.entries(data.lots) throws a TypeError when data has no lots field
ConversionThrows(data) == data.kind # "lots"

(***************************************************************************)
(* The cards                                                               *)
(***************************************************************************)
\* SlotCard: { slot.status ? "Disponível" : "Ocupado" }
SlotCard(slot) == IF slot.status THEN "Disponível" ELSE "Ocupado"

\* LotCard: { slot.status ? "Ocupado" : "Disponível" }
LotCard(slot) == IF slot.status THEN "Ocupado" ELSE "Disponível"

(***************************************************************************)
(* The polling components                                                  *)
(***************************************************************************)
ParkComps == {"ParkContainer", "Header"}

ListComps == {"EstablishmentContainer", "SearchBar"}

Pathnames == {"/", "/search", "/establishment"}

\* setInterval(loadPark, 15000) of ParkContainer and Header and
\* setInterval(loadEstablishments, 15000) of SearchBar
PollMs == 15000

\* setInterval(loadEstablishments, 1000) of EstablishmentContainer
ListPollMs == 1000

NoInterval == [active |-> FALSE, ms |-> 0]

EmptyList == [kind |-> "list", items |-> <<>>]

NoAlert == [message |-> "", timeDuration |-> 0, type |-> "success"]

ErrorAlert ==
    [message |-> "Erro ao carregar estabelecimentos.", timeDuration |-> 3000,
     type |-> "error"]

NoData == [kind |-> "none"]

Idle == [op |-> "none"]

InitComp ==
    /\ cookies = [accessToken |-> NoCookie, refreshToken |-> NoCookie]
    /\ calls = [c \in Calls |-> IdleCall]
    /\ auth = IdleAuth
    /\ nav = NoRequest
    /\ page = IdlePage
    /\ comp \in ParkComps \cup ListComps
    /\ pathname \in Pathnames
    /\ phase = "initial"
    /\ interval = NoInterval
    /\ started = <<>>
    /\ pending = {}
    /\ ticks = 0
    /\ lots = <<>>
    /\ slots = <<>>
    /\ slotTypes = <<>>
    /\ establishments = EmptyList
    /\ alertOpen = FALSE
    /\ alertProps = NoAlert
    /\ shown = NoData
    /\ last = Idle

dataVars == <<lots, slots, slotTypes, establishments, alertOpen, alertProps, shown>>

\* A call of loadPark / loadEstablishments: the request goes out and the
\* function waits for the service.
StartLoad(origin) ==
    /\ Len(started) < MaxLoads
    /\ started' = Append(started, [origin |-> origin, phase |-> phase'])
    /\ pending' = pending \cup {Len(started) + 1}

\* Whether the mount effect calls the load function itself
LoadsAtMount ==
    \/ comp \in ParkComps
    \/ comp = "EstablishmentContainer" /\ pathname \in {"/", "/search"}
    \/ comp = "SearchBar" /\ pathname = "/search"

IntervalMs == IF comp = "EstablishmentContainer" THEN ListPollMs ELSE PollMs

\* useEffect(() => { load(); const interval = setInterval(load, ms); ... }, [])
Mount ==
    /\ phase = "initial"
    /\ phase' = "mounted"
    /\ IF LoadsAtMount THEN StartLoad("mount") ELSE UNCHANGED <<started, pending>>
    /\ interval' = [active |-> TRUE, ms |-> IntervalMs]
    /\ last' = [op |-> "mount"]
    /\ UNCHANGED <<comp, pathname, ticks, dataVars>>
    /\ UNCHANGED notComp

\* The interval timer fires: the load function is called.
Tick ==
    /\ interval.active
    /\ UNCHANGED phase
    /\ StartLoad("timer")
    /\ ticks' = ticks + 1
    /\ last' = [op |-> "tick"]
    /\ UNCHANGED <<comp, pathname, interval, dataVars>>
    /\ UNCHANGED notComp

\* <input onFocus={ loadPark }> of Header, <input onFocus={ loadEstablishments }>
\* of SearchBar
Focus ==
    /\ comp \in {"Header", "SearchBar"}
    /\ phase = "mounted"
    /\ UNCHANGED phase
    /\ StartLoad("focus")
    /\ last' = [op |-> "focus"]
    /\ UNCHANGED <<comp, pathname, interval, ticks, dataVars>>
    /\ UNCHANGED notComp

Unmount_keepsInterval ==
    /\ phase = "mounted"
    /\ phase' = "unmounted"
    /\ last' = [op |-> "unmount"]
    /\ UNCHANGED <<comp, pathname, interval, started, pending, ticks, dataVars>>
    /\ UNCHANGED notComp

\* the effect's cleanup: return () => clearInterval(interval)
Unmount ==
    /\ phase = "mounted"
    /\ phase' = "unmounted"
    /\ interval' = [interval EXCEPT !.active = FALSE]
    /\ last' = [op |-> "unmount"]
    /\ UNCHANGED <<comp, pathname, started, pending, ticks, dataVars>>
    /\ UNCHANGED notComp

\* handleClose={() => setAlertOpen(false)}
CloseAlert ==
    /\ alertOpen
    /\ alertOpen' = FALSE
    /\ last' = [op |-> "close"]
    /\ UNCHANGED <<comp, pathname, phase, interval, started, pending, ticks,
                   lots, slots, slotTypes, establishments, alertProps, shown>>
    /\ UNCHANGED notComp

\* a catch block that forgets setSlots([])
loadPark_catch_keepsSlots ==
    /\ lots' = <<>>
    /\ slotTypes' = <<>>
    /\ alertProps' = ErrorAlert
    /\ alertOpen' = TRUE
    /\ shown' = NoData
    /\ UNCHANGED slots

\* the catch block of loadPark
loadPark_catch ==
    /\ lots' = <<>>
    /\ slots' = <<>>
    /\ slotTypes' = <<>>
    /\ alertProps' = ErrorAlert
    /\ alertOpen' = TRUE
    /\ shown' = NoData

\* loadPark of ParkContainer and of Header from the answer of the service on
\* (Header keeps no slotTypes state: its slotTypes stays empty).
loadPark_done(id, outcome) ==
    /\ comp \in ParkComps
    /\ id \in pending
    /\ pending' = pending \ {id}
    /\ last' = [op |-> "loadPark", id |-> id, failed |-> Failed(outcome),
                hadSlots |-> slots # <<>>]
    /\ LET data == list_establishment_by_lot(outcome)
       IN IF ~JsTruthy(data) \/ ConversionThrows(data)
          THEN loadPark_catch
          ELSE /\ lots' = lotsConverted(data)
               /\ slots' = slotsConverted(data)
               /\ slotTypes' = IF comp = "ParkContainer"
                               THEN slotTypesConverted(data) ELSE <<>>
               /\ shown' = data
               /\ UNCHANGED <<alertOpen, alertProps>>
    /\ UNCHANGED <<comp, pathname, phase, interval, started, ticks, establishments>>
    /\ UNCHANGED notComp

\* loadEstablishments of EstablishmentContainer and of SearchBar from the
\* answer of the service on: if (!data) throw data.error (a TypeError on null)
loadEstablishments_done(id, outcome) ==
    /\ comp \in ListComps
    /\ id \in pending
    /\ pending' = pending \ {id}
    /\ last' = [op |-> "loadEstablishments", id |-> id, failed |-> Failed(outcome)]
    /\ LET data == list_establishments(outcome)
       IN IF ~JsTruthy(data)
          THEN /\ establishments' = EmptyList
               /\ alertProps' = ErrorAlert
               /\ alertOpen' = TRUE
          ELSE /\ establishments' = data
               /\ UNCHANGED <<alertOpen, alertProps>>
    /\ UNCHANGED <<comp, pathname, phase, interval, started, ticks,
                   lots, slots, slotTypes, shown>>
    /\ UNCHANGED notComp

NextComp ==
    \/ Mount
    \/ Tick
    \/ Focus
    \/ Unmount
    \/ CloseAlert
    \/ \E id \in 1..MaxLoads, o \in Outcomes(LotsPayloads) : loadPark_done(id, o)
    \/ \E id \in 1..MaxLoads, o \in Outcomes(ListPayloads) : loadEstablishments_done(id, o)

(***************************************************************************)
(* The server actions login and register                                   *)
(***************************************************************************)
\* data.access / data.refresh of a successful login, data.tokens of a
\* successful registration
LoginTokens == {<<"a">>, <<"a", "=">>}

\* err.response.data of a failed request: each field is a message or absent
\* (the empty string stands for undefined)
ErrorDatas ==
    [detail : {"", "detail message"}, username : {"", "username message"},
     email : {"", "email message"}, password : {"", "password message"}]

\* What forAuth.post comes to: a 2xx answer with the tokens, an error with an
\* HTTP response, an error without one (err.response is undefined).
AuthOutcomes ==
    {[k |-> "ok", access |-> a, refresh |-> r] : a \in LoginTokens, r \in LoginTokens}
        \cup {[k |-> "http", data |-> d] : d \in ErrorDatas}
        \cup {[k |-> "network"]}

InitAuth ==
    /\ cookies \in [accessToken : CookieStates, refreshToken : RefreshCookieStates]
    /\ calls = [c \in Calls |-> IdleCall]
    /\ auth = IdleAuth
    /\ nav = NoRequest
    /\ page = IdlePage
    /\ comp = "none" /\ pathname = "/" /\ phase = "initial"
    /\ interval = [active |-> FALSE, ms |-> 0]
    /\ started = <<>> /\ pending = {} /\ ticks = 0
    /\ lots = <<>> /\ slots = <<>> /\ slotTypes = <<>>
    /\ establishments = [kind |-> "list", items |-> <<>>]
    /\ alertOpen = FALSE
    /\ alertProps = [message |-> "", timeDuration |-> 0, type |-> "success"]
    /\ shown = [kind |-> "none"] /\ last = [op |-> "none"]

notAuth == <<calls, compVars, navVars, pageVars>>

\* a || b
Or(a, b) == IF a # "" THEN a ELSE b

\* login / register are called: forAuth.post(...) is awaited
auth_start(kind) ==
    /\ auth.pc = "idle"
    /\ auth' = [kind |-> kind, pc |-> "posting", jar0 |-> cookies]
    /\ UNCHANGED cookies
    /\ UNCHANGED notAuth

\* a login that stores the access token only
setTokens_accessOnly(outcome) ==
    [cookies EXCEPT !.accessToken = Cookie(outcome.access)]

\* the two cookieStore.set calls of login and of register
setTokens(outcome) ==
    [accessToken |-> Cookie(outcome.access), refreshToken |-> Cookie(outcome.refresh)]

\* login from the answer of its request on
login_done(outcome) ==
    /\ auth.kind = "login" /\ auth.pc = "posting"
    /\ IF outcome.k = "ok"
       THEN /\ cookies' = setTokens(outcome)
            /\ auth' = [auth EXCEPT !.pc = "done"] @@
                       [outcome |-> outcome, ret |-> [how |-> "return", ok |-> TRUE]]
       ELSE /\ UNCHANGED cookies
            /\ auth' = [auth EXCEPT !.pc = "done"] @@
                       [outcome |-> outcome,
                        ret |-> [how |-> "return", ok |-> FALSE,
                                 message |-> IF outcome.k = "network"
                                             THEN "Erro no tentar entrar"
                                             ELSE Or(outcome.data.detail,
                                                     "Erro no tentar entrar")]]
    /\ UNCHANGED notAuth

\* register from the answer of its request on: without an HTTP response the
\* catch block reads err.response.data of undefined and throws a TypeError
register_done(outcome) ==
    /\ auth.kind = "register" /\ auth.pc = "posting"
    /\ IF outcome.k = "ok"
       THEN /\ cookies' = setTokens(outcome)
            /\ auth' = [auth EXCEPT !.pc = "done"] @@
                       [outcome |-> outcome, ret |-> [how |-> "return", ok |-> TRUE]]
       ELSE /\ UNCHANGED cookies
            /\ auth' = [auth EXCEPT !.pc = "done"] @@
                       [outcome |-> outcome,
                        ret |-> IF outcome.k = "network"
                                THEN [how |-> "throw"]
                                ELSE [how |-> "return", ok |-> FALSE,
                                      message |-> Or(outcome.data.username,
                                                     Or(outcome.data.email,
                                                        outcome.data.password))]]
    /\ UNCHANGED notAuth

NextAuth ==
    \/ \E kind \in {"login", "register"} : auth_start(kind)
    \/ \E o \in AuthOutcomes : login_done(o)
    \/ \E o \in AuthOutcomes : register_done(o)

(***************************************************************************)
(* getUser (lib/auth/getUser.ts): the logged-in test of the pages, on top  *)
(* of apiFetch                                                             *)
(***************************************************************************)
\* The body of GET /accounts/user/profile/ of a logged-in user
ProfileBody == [kind |-> "profile", id |-> "7", username |-> "ana"]

\* What response.json() of the profile request can meet: the profile, an
\* error object such as { "detail": "..." }, JSON null, or no JSON at all
ProfileBodies == {ProfileBody, ErrorBody, JNull, NotJson}

\* data?.id and data?.username: undefined when data has no such field
fieldOf(data, name) ==
    IF data.kind = "profile" THEN data[name] ELSE "undefined"

\* const user: User = { id_user: data?.id, ..., username: data?.username, ... }
UserOf(data) ==
    [kind |-> "User", id_user |-> fieldOf(data, "id"),
     username |-> fieldOf(data, "username")]

\* { isLogged: false, user: null }
NotLogged == [how |-> "return", isLogged |-> FALSE, user |-> JNull]

\* { isLogged: true, user: user }
Logged(user) == [how |-> "return", isLogged |-> TRUE, user |-> user]

\* a getUser that calls apiFetch whatever the accessToken cookie is
getUser_start_unguarded ==
    /\ auth.pc = "idle"
    /\ auth' = [kind |-> "getUser", pc |-> "calling", jar0 |-> cookies]
    /\ UNCHANGED cookies
    /\ UNCHANGED notAuth

\* getUser up to its try block: without an accessToken cookie (absent or
\* empty) it returns at once
getUser_start ==
    /\ auth.pc = "idle"
    /\ IF ~Truthy(getAccessToken(cookies))
       THEN auth' = [kind |-> "getUser", pc |-> "done", jar0 |-> cookies,
                     ret |-> NotLogged]
       ELSE auth' = [kind |-> "getUser", pc |-> "calling", jar0 |-> cookies]
    /\ UNCHANGED cookies
    /\ UNCHANGED notAuth

\* await apiFetch("/accounts/user/profile/"): the call of the wrapper
getUser_apiFetch(c) ==
    /\ auth.kind = "getUser" /\ auth.pc = "calling"
    /\ \A d \in Calls : calls[d].pc = "idle"
    /\ apiFetch_start(c, NoOptions)

\* getUser from the end of apiFetch on: a thrown apiFetch and a rejected
\* response.json() end in the catch block; every parsed body, of whatever
\* status, ends in { isLogged: true, user }
getUser_result(call, body) ==
    IF call.ret = Thrown \/ body = NotJson THEN NotLogged
    ELSE Logged(UserOf(body))

getUser_done(c, body) ==
    /\ auth.kind = "getUser" /\ auth.pc = "calling"
    /\ calls[c].pc = "done"
    /\ auth' = [kind |-> "getUser", pc |-> "done", jar0 |-> auth.jar0,
                ret |-> getUser_result(calls[c], body)]
    /\ UNCHANGED <<cookies, calls>>
    /\ UNCHANGED <<compVars, navVars, pageVars>>

NextUser ==
    \/ getUser_start
    \/ \E c \in Calls :
        \/ getUser_apiFetch(c)
        \/ \E s \in Statuses : serverWrapper_first(c, s)
        \/ \E r \in RefreshOutcomes : apiFetch_refreshed(c, r)
        \/ \E s \in Statuses : wrapper_second(c, s)
        \/ fetch_rejects(c)
        \/ \E b \in ProfileBodies : getUser_done(c, b)

(***************************************************************************)
(* The route guard (middleware.ts).  A pathname is kept as the sequence of *)
(* its pieces, its string being their concatenation: <<"/profile", "s">>   *)
(* is "/profiles".  No piece but a route itself begins with a route.       *)
(***************************************************************************)
PUBLIC_ROUTES == {"/login", "/register"}

PROTECTED_ROUTES == {"/profile", "/saved"}

\* config.matcher: each entry matches its own path and nothing below it
matcher == {<<"/login">>, <<"/register">>, <<"/profile">>, <<"/saved">>}

RequestPaths ==
    {<<"/">>, <<"/search">>, <<"/login">>, <<"/register">>, <<"/profile">>,
     <<"/saved">>, <<"/profile", "/edit">>, <<"/saved", "/7">>,
     <<"/profile", "s">>, <<"/login", "/help">>}

\* pathname.startsWith(route)
startsWith(path, route) == Head(path) = route

\* NextResponse.redirect(new URL(to, request.url))
Redirect(to) == [kind |-> "redirect", to |-> to]

\* NextResponse.next(), and a request the matcher leaves to the page
PassThrough == [kind |-> "next", to |-> ""]

\* the body of middleware(request)
middleware(path, accessToken) ==
    LET isPublic == \E route \in PUBLIC_ROUTES : startsWith(path, route)
        isProtected == \E route \in PROTECTED_ROUTES : startsWith(path, route)
    IN IF Truthy(accessToken) /\ isPublic THEN Redirect("/")
       ELSE IF ~Truthy(accessToken) /\ isProtected THEN Redirect("/login")
       ELSE PassThrough

InitGuard ==
    /\ cookies \in [accessToken : CookieStates, refreshToken : RefreshCookieStates]
    /\ calls = [c \in Calls |-> IdleCall]
    /\ auth = IdleAuth
    /\ nav = NoRequest
    /\ page = IdlePage
    /\ comp = "none" /\ pathname = "/" /\ phase = "initial"
    /\ interval = [active |-> FALSE, ms |-> 0]
    /\ started = <<>> /\ pending = {} /\ ticks = 0
    /\ lots = <<>> /\ slots = <<>> /\ slotTypes = <<>>
    /\ establishments = [kind |-> "list", items |-> <<>>]
    /\ alertOpen = FALSE
    /\ alertProps = [message |-> "", timeDuration |-> 0, type |-> "success"]
    /\ shown = [kind |-> "none"] /\ last = [op |-> "none"]

\* the browser asks for a page, with its cookies
Request(path) ==
    /\ nav.pc = "none"
    /\ nav' = [pc |-> "requested", path |-> path]
    /\ UNCHANGED <<fetchVars, authVars, compVars, pageVars>>

\* the request matches config.matcher: middleware(request) answers it
middleware_answers ==
    /\ nav.pc = "requested" /\ nav.path \in matcher
    /\ nav' = [pc |-> "answered", path |-> nav.path, by |-> "middleware",
               answer |-> middleware(nav.path, getAccessToken(cookies))]
    /\ UNCHANGED <<fetchVars, authVars, compVars, pageVars>>

\* the request does not match config.matcher: the middleware is not run
matcher_skips ==
    /\ nav.pc = "requested" /\ nav.path \notin matcher
    /\ nav' = [pc |-> "answered", path |-> nav.path, by |-> "page",
               answer |-> PassThrough]
    /\ UNCHANGED <<fetchVars, authVars, compVars, pageVars>>

NextGuard ==
    \/ \E path \in RequestPaths : Request(path)
    \/ middleware_answers
    \/ matcher_skips

(***************************************************************************)
(* The login and register pages: handleLogin / handleRegister call the     *)
(* server action (auth_start), wait for it and show an alert               *)
(***************************************************************************)
\* setTimeout(() => { router.replace("/") }, 2500)
NavDelayMs == 2500

LoginSuccessAlert ==
    [message |-> "Login efetuado com sucesso.", timeDuration |-> 2000,
     type |-> "success"]

RegisterSuccessAlert ==
    [message |-> "Usuario cadastrado com sucesso", timeDuration |-> 2000,
     type |-> "success"]

\* The first character of the message of the Error a throwing server action
\* rejects with: of the TypeError's own text, or of the text the framework
\* puts in its place in a production build
ErrorInitials == {"C", "A"}

InitPage ==
    /\ cookies \in [accessToken : CookieStates, refreshToken : RefreshCookieStates]
    /\ calls = [c \in Calls |-> IdleCall]
    /\ auth = IdleAuth
    /\ nav = NoRequest
    /\ page = IdlePage
    /\ comp = "none" /\ pathname = "/" /\ phase = "initial"
    /\ interval = [active |-> FALSE, ms |-> 0]
    /\ started = <<>> /\ pending = {} /\ ticks = 0
    /\ lots = <<>> /\ slots = <<>> /\ slotTypes = <<>>
    /\ establishments = [kind |-> "list", items |-> <<>>]
    /\ alertOpen = FALSE
    /\ alertProps = [message |-> "", timeDuration |-> 0, type |-> "success"]
    /\ shown = [kind |-> "none"] /\ last = [op |-> "none"]

pageFrame ==
    <<fetchVars, authVars, navVars, comp, pathname, phase, interval, started,
      pending, ticks, lots, slots, slotTypes, establishments, shown, last>>

\* handleLogin from the answer of login on: login always returns
handleLogin_done ==
    /\ auth.kind = "login" /\ auth.pc = "done" /\ page.pc = "idle"
    /\ IF auth.ret.ok
       THEN /\ alertProps' = LoginSuccessAlert
            /\ page' = [page EXCEPT !.pc = "done", !.timer = NavDelayMs]
       ELSE /\ alertProps' = [message |-> auth.ret.message, timeDuration |-> 2000,
                             type |-> "error"]
            /\ page' = [page EXCEPT !.pc = "done"]
    /\ alertOpen' = TRUE
    /\ UNCHANGED pageFrame

\* The catch block of handleRegister: message: err.message[0].  The message
\* register returns is the list of messages of a field of the validation
\* answer, which the model keeps as its first message, or undefined (""),
\* and then err.message[0] throws inside the catch block; of an Error
\* thrown by register err.message[0] is the first character of its text.
handleRegister_catch(initial) ==
    IF auth.ret.how = "throw"
    THEN /\ alertProps' = [message |-> initial, timeDuration |-> 3000,
                          type |-> "error"]
         /\ alertOpen' = TRUE
         /\ page' = [page EXCEPT !.pc = "done"]
    ELSE IF auth.ret.message = ""
    THEN /\ page' = [page EXCEPT !.pc = "done", !.threw = TRUE]
         /\ UNCHANGED <<alertProps, alertOpen>>
    ELSE /\ alertProps' = [message |-> auth.ret.message, timeDuration |-> 3000,
                          type |-> "error"]
         /\ alertOpen' = TRUE
         /\ page' = [page EXCEPT !.pc = "done"]

\* handleRegister from the end of register on
handleRegister_done(initial) ==
    /\ auth.kind = "register" /\ auth.pc = "done" /\ page.pc = "idle"
    /\ IF auth.ret.how = "return" /\ auth.ret.ok
       THEN /\ alertProps' = RegisterSuccessAlert
            /\ alertOpen' = TRUE
            /\ page' = [page EXCEPT !.pc = "done", !.timer = NavDelayMs]
       ELSE handleRegister_catch(initial)
    /\ UNCHANGED pageFrame

\* the navigation timer fires: router.replace("/")
timer_fires ==
    /\ page.timer > 0 /\ ~page.replaced
    /\ page' = [page EXCEPT !.replaced = TRUE]
    /\ UNCHANGED <<alertOpen, alertProps>>
    /\ UNCHANGED pageFrame

NextPage ==
    \/ \E kind \in {"login", "register"} : auth_start(kind)
    \/ \E o \in AuthOutcomes : login_done(o)
    \/ \E o \in AuthOutcomes : register_done(o)
    \/ handleLogin_done
    \/ \E i \in ErrorInitials : handleRegister_done(i)
    \/ timer_fires

(***************************************************************************)
(* Specifications                                                          *)
(***************************************************************************)
\* The fetch wrappers
Spec == InitFetch /\ [][NextFetch]_vars

\* The fetch wrappers when every awaited fetch is settled in the end (it is
\* answered or it rejects) and every continuation is run
SpecLive == InitFetch /\ [][NextFetch]_vars /\ WF_vars(NextFetch)

\* Server wrappers side by side
SpecPair == InitPair /\ [][NextPair]_vars

\* getUser
SpecUser == InitAuth /\ [][NextUser]_vars

\* The route guard
SpecGuard == InitGuard /\ [][NextGuard]_vars

\* The login and register pages; the server action is answered in the end
\* and a timer that was set fires
SpecPage == InitPage /\ [][NextPage]_vars /\ WF_vars(NextPage)

\* The polling components
SpecComp == InitComp /\ [][NextComp]_vars

\* The server actions
SpecAuth == InitAuth /\ [][NextAuth]_vars

(***************************************************************************)
(* Properties of the fetch wrappers                                        *)
(***************************************************************************)
ServerKinds == {"apiServerFetch", "apiFetch"}

RefreshRequests(call) == {i \in 1..Len(call.reqs) : call.reqs[i].to = "refresh"}

\* The case of C1: a server wrapper got 401 first, a refreshToken cookie was
\* there and the refresh endpoint answered ok.
RefreshedOk(call) ==
    /\ call.kind \in ServerKinds
    /\ call.res1 = 401
    /\ Len(call.reqs) >= 2 /\ call.reqs[2].to = "refresh"
    /\ call.rfr.k = "ok"

\* C1 as stated: after a first 401, with a refreshToken cookie and an ok answer
\* of the refresh endpoint, a server wrapper has sent exactly first request,
\* refresh request and one repeat carrying Authorization: Bearer <new access
\* token>, and what it returns is the answer to the repeat.
C1_Original ==
    \A c \in Calls :
        RefreshedOk(calls[c]) =>
            /\ Len(calls[c].reqs) = 3
            /\ calls[c].reqs[3] =
                   [to |-> "endpoint", auth |-> Bearer(calls[c].rfr.access), body |-> <<>>]
            /\ calls[c].pc = "done" /\ calls[c].ret.how = "response"
                   => calls[c].ret.which = 2

\* C1 amended: the same, when the ok answer of the refresh endpoint carries a
\* non-empty access token; the repeat carries Authorization: Bearer <new access
\* token> unless the caller's options hold an Authorization header of their
\* own, which then is the one sent.
C1_Amended ==
    \A c \in Calls :
        RefreshedOk(calls[c]) /\ Truthy(calls[c].rfr.access) =>
            /\ Len(calls[c].reqs) = 3
            /\ calls[c].reqs[3] =
                   [to |-> "endpoint",
                    auth |-> IF calls[c].options.auth THEN CallerAuth
                             ELSE Bearer(calls[c].rfr.access),
                    body |-> <<>>]
            /\ calls[c].pc = "done" /\ calls[c].ret.how = "response"
                   => calls[c].ret.which = 2

\* A server wrapper has returned the answer to its repeated request, which was
\* another 401, after a refresh that gave it a token different from its first.
C1_Witness ==
    \E c \in Calls :
        /\ RefreshedOk(calls[c]) /\ ~calls[c].options.auth
        /\ calls[c].pc = "done" /\ calls[c].ret = Returned(2) /\ calls[c].res2 = 401
        /\ calls[c].reqs[1].auth # calls[c].reqs[3].auth

\* C2 as stated: the server wrapper and the client wrapper alike answer a 401
\* (with a refreshToken cookie present) by calling the refresh endpoint.
C2_Original ==
    \A c \in Calls :
        /\ calls[c].kind \in {"apiServerFetch", "apiClientFetch"}
        /\ calls[c].res1 = 401
        /\ Truthy(getRefreshToken(cookies))
        => RefreshRequests(calls[c]) # {}

\* C2 amended: only the server wrapper renews the session.  After a 401 with a
\* refreshToken cookie present apiServerFetch calls the refresh endpoint with
\* that cookie's value, and every repeat it sends follows a refresh that
\* answered ok; apiClientFetch sends no request to the refresh endpoint, and
\* its repeat after a 401 is sent with the token argument null.
C2_Amended ==
    \A c \in Calls :
        /\ calls[c].kind = "apiServerFetch" /\ calls[c].res1 = 401
               /\ Truthy(getRefreshToken(cookies))
           => /\ RefreshRequests(calls[c]) = {2}
              /\ calls[c].reqs[2].body = getRefreshToken(cookies)
        /\ calls[c].kind = "apiServerFetch" /\ Len(calls[c].reqs) = 3
           => /\ calls[c].rfr.k = "ok"
              /\ calls[c].reqs[3] = baseFetch(calls[c].rfr.access, calls[c].options)
        /\ calls[c].kind = "apiClientFetch"
           => /\ RefreshRequests(calls[c]) = {}
              /\ calls[c].rfr = NoOutcome
              /\ calls[c].res1 = 401
                   => /\ Len(calls[c].reqs) = 2
                      /\ calls[c].reqs[2] = baseFetch(Null, calls[c].options)

\* The client wrapper has finished after a 401 while a refreshToken cookie was
\* there, without any request to the refresh endpoint.
C2_Witness ==
    \E c \in Calls :
        /\ calls[c].kind = "apiClientFetch" /\ calls[c].res1 = 401
        /\ Truthy(getRefreshToken(cookies))
        /\ calls[c].pc = "done" /\ calls[c].ret = Returned(2)

\* C3 as stated: after a 401 the client wrapper has sent exactly one repeat,
\* which carries no Authorization header, and none to the refresh endpoint;
\* after any other status it has sent one request and returns its answer; it
\* writes no cookie.
C3_Original ==
    \A c \in Calls :
        calls[c].kind = "apiClientFetch" =>
            /\ RefreshRequests(calls[c]) = {}
            /\ calls[c].wrote = <<>>
            /\ calls[c].res1 = 401 =>
                   /\ Len(calls[c].reqs) = 2
                   /\ calls[c].reqs[2].auth = NoAuth
                   /\ calls[c].ret.how = "response" => calls[c].ret.which = 2
            /\ calls[c].res1 \in Statuses \ {401} =>
                   /\ Len(calls[c].reqs) = 1
                   /\ calls[c].ret = Returned(1)

\* C3 amended: the repeat carries no Authorization header of the wrapper's
\* making: none at all unless the caller's options hold one, which is sent as
\* it was with the first request.
C3_Amended ==
    \A c \in Calls :
        calls[c].kind = "apiClientFetch" =>
            /\ RefreshRequests(calls[c]) = {}
            /\ calls[c].wrote = <<>>
            /\ calls[c].res1 = 401 =>
                   /\ Len(calls[c].reqs) = 2
                   /\ calls[c].reqs[2].auth =
                          (IF calls[c].options.auth THEN CallerAuth ELSE NoAuth)
                   /\ calls[c].ret.how = "response" => calls[c].ret.which = 2
            /\ calls[c].res1 \in Statuses \ {401} =>
                   /\ Len(calls[c].reqs) = 1
                   /\ calls[c].ret = Returned(1)

\* The client wrapper, called with an accessToken cookie, got 401 and has
\* returned the answer to its repeat, which went out without the token.
C3_Witness ==
    \E c \in Calls :
        /\ calls[c].kind = "apiClientFetch" /\ ~calls[c].options.auth
        /\ calls[c].reqs[1].auth.scheme = "Bearer"
        /\ calls[c].res1 = 401 /\ calls[c].pc = "done" /\ calls[c].ret = Returned(2)
        /\ calls[c].reqs[2].auth = NoAuth

\* C4: the first request of a wrapper called without an Authorization header
\* of the caller's carries Authorization: Bearer <v> when the accessToken
\* cookie was present with the non-empty value v at the call, and no
\* Authorization header when the cookie was absent or empty; with a header of
\* the caller's it carries no Bearer header of the wrapper.
C4_Claim ==
    \A c \in Calls :
        calls[c].pc # "idle" =>
            IF calls[c].options.auth
            THEN calls[c].reqs[1].auth.scheme # "Bearer"
            ELSE calls[c].reqs[1].auth =
                     (IF calls[c].jar0.set /\ calls[c].jar0.value # <<>>
                      THEN Bearer(calls[c].jar0.value) ELSE NoAuth)

EndpointRequests(call) == {i \in 1..Len(call.reqs) : call.reqs[i].to = "endpoint"}

\* C11: one call of a server wrapper sends at most two requests to the
\* endpoint and at most one to the refresh endpoint, whatever the cookies and
\* the answers are; once the repeat is answered (by a 401 too) the call has
\* returned that answer; and every call that was started comes to its end.
C11_BoundedRetry ==
    /\ [](\A c \in Calls :
            calls[c].kind \in ServerKinds =>
                /\ Cardinality(EndpointRequests(calls[c])) <= 2
                /\ Cardinality(RefreshRequests(calls[c])) <= 1
                /\ calls[c].res2 # 0 =>
                       calls[c].pc = "done" /\ calls[c].ret = Returned(2))
    /\ \A c \in Calls : (calls[c].pc # "idle") ~> (calls[c].pc = "done")

\* apiFetch has ended after a 401 on its repeat, with two requests to the
\* endpoint and one to the refresh endpoint.
C11_Witness ==
    \E c \in Calls :
        /\ calls[c].kind = "apiFetch" /\ calls[c].pc = "done"
        /\ calls[c].res1 = 401 /\ calls[c].res2 = 401
        /\ Cardinality(EndpointRequests(calls[c])) = 2
        /\ Cardinality(RefreshRequests(calls[c])) = 1

\* C12: a server wrapper whose first response has a status other than 401 has
\* sent that one request only, none to the refresh endpoint, has written no
\* cookie and has returned the first response.
C12_NoRefresh ==
    \A c \in Calls :
        calls[c].kind \in ServerKinds /\ calls[c].res1 \in Statuses \ {401} =>
            /\ Len(calls[c].reqs) = 1
            /\ RefreshRequests(calls[c]) = {}
            /\ calls[c].wrote = <<>>
            /\ calls[c].pc = "done" /\ calls[c].ret = Returned(1)

\* A server wrapper has returned a first response of status 500 while a
\* refreshToken cookie was there.
C12_Witness ==
    \E c \in Calls :
        /\ calls[c].kind \in ServerKinds /\ calls[c].res1 = 500
        /\ Truthy(getRefreshToken(cookies))
        /\ calls[c].pc = "done" /\ calls[c].ret = Returned(1)

\* C13: a server wrapper whose first response is 401 and whose refresh failed
\* (no refreshToken cookie, and then no request to the refresh endpoint; or a
\* non-ok answer of the refresh endpoint) has written no cookie, has sent no
\* second request to the endpoint and has returned the first response.
C13_FailedRefresh ==
    \A c \in Calls :
        calls[c].kind \in ServerKinds /\ calls[c].res1 = 401 =>
            /\ ~Truthy(getRefreshToken(cookies)) =>
                   /\ RefreshRequests(calls[c]) = {}
                   /\ calls[c].rfr = NoOutcome
            /\ ~Truthy(getRefreshToken(cookies)) \/ calls[c].rfr.k = "notok" =>
                   /\ calls[c].wrote = <<>>
                   /\ EndpointRequests(calls[c]) = {1}
                   /\ calls[c].pc = "done" /\ calls[c].ret = Returned(1)

\* apiServerFetch has returned the 401 after a non-ok answer of the refresh
\* endpoint.
C13_Witness ==
    \E c \in Calls :
        /\ calls[c].kind = "apiServerFetch" /\ calls[c].res1 = 401
        /\ calls[c].rfr.k = "notok" /\ Len(calls[c].reqs) = 2
        /\ calls[c].pc = "done" /\ calls[c].ret = Returned(1)

\* the step of call c in which its refresh request is settled
RefreshSettles(c) == calls[c].pc = "refresh" /\ calls'[c].pc # "refresh"

\* C14 as stated: no step of a wrapper changes the refreshToken cookie; and
\* when a refresh ends with a repeat of the request, the repeat carries
\* Authorization: Bearer <t> and the accessToken cookie then holds exactly t.
C14_Original ==
    [][\A c \in Calls :
          /\ cookies'.refreshToken = cookies.refreshToken
          /\ RefreshSettles(c) /\ Len(calls'[c].reqs) = 3 =>
                 /\ calls'[c].reqs[3].auth.scheme = "Bearer"
                 /\ cookies'.accessToken = Cookie(calls'[c].reqs[3].auth.cred)]_vars

\* C14 amended: the accessToken cookie then holds exactly the token the
\* refresh returned, which is the one sent as Authorization: Bearer <t> with
\* the repeat unless the caller's options hold an Authorization header of
\* their own; the accessToken cookie changes in no other step.
C14_Amended ==
    [][\A c \in Calls :
          /\ cookies'.refreshToken = cookies.refreshToken
          /\ RefreshSettles(c) /\ Len(calls'[c].reqs) = 3 =>
                 /\ calls'[c].rfr.k = "ok"
                 /\ cookies'.accessToken = Cookie(calls'[c].rfr.access)
                 /\ calls'[c].reqs[3].auth =
                        (IF calls'[c].options.auth THEN CallerAuth
                         ELSE Bearer(cookies'.accessToken.value))
          /\ cookies'.accessToken # cookies.accessToken =>
                 \E d \in Calls : RefreshSettles(d) /\ calls'[d].rfr.k = "ok"]_vars

\* A refresh has replaced a different accessToken cookie, and the repeat went
\* out with the new value.
C14_Witness ==
    \E c \in Calls :
        /\ calls[c].kind \in ServerKinds /\ ~calls[c].options.auth
        /\ calls[c].pc = "second"
        /\ calls[c].jar0.set /\ calls[c].jar0 # cookies.accessToken
        /\ calls[c].reqs[3].auth = Bearer(cookies.accessToken.value)
        /\ cookies.refreshToken = Cookie(<<"a">>)


Given(call) ==
    [jar0 |-> call.jar0, options |-> call.options,
     res1 |-> call.res1, rfr |-> call.rfr, res2 |-> call.res2]

\* C16: an apiServerFetch call and an apiFetch call that were given the same
\* cookies, options and backend answers (the outcome of the refresh request,
\* a rejected fetch included) have sent the same requests, made the same
\* cookie writes and returned or thrown the same.
C16_Claim ==
    \A c, d \in DOMAIN calls :
        /\ calls[c].kind = "apiServerFetch" /\ calls[d].kind = "apiFetch"
        /\ calls[c].pc = "done" /\ calls[d].pc = "done"
        /\ Given(calls[c]) = Given(calls[d])
        => /\ calls[c].reqs = calls[d].reqs
           /\ calls[c].wrote = calls[d].wrote
           /\ calls[c].ret = calls[d].ret

(***************************************************************************)
(* Properties of the polling components                                    *)
(***************************************************************************)
Started(origin) == {i \in 1..Len(started) : started[i].origin = origin}

\* C5: a ParkContainer or Header that is mounted has its interval timer
\* running at 15000 ms; its mount started loadPark exactly once, as the first
\* call; every timer tick started exactly one loadPark; once it is unmounted
\* the interval is cleared and no loadPark was ever started by the timer
\* after the unmount.
C5_Polling ==
    comp \in ParkComps =>
        /\ phase = "mounted" => interval = [active |-> TRUE, ms |-> 15000]
        /\ phase # "initial" => Started("mount") = {1}
        /\ Cardinality(Started("timer")) = ticks
        /\ phase = "unmounted" => ~interval.active
        /\ \A i \in Started("timer") : started[i].phase = "mounted"

\* A Header was unmounted after its timer had started a loadPark.
C5_Witness ==
    /\ comp = "Header" /\ phase = "unmounted"
    /\ Started("timer") # {} /\ ticks >= 1

\* C6: after a loadEstablishments whose request failed (a rejected fetch or a
\* non-ok response) establishments is the empty list and the error alert is
\* open; and establishments always is a list.
C6_Claim ==
    comp \in ListComps =>
        /\ establishments.kind = "list"
        /\ last.op = "loadEstablishments" /\ last.failed
               => establishments = EmptyList /\ alertOpen /\ alertProps = ErrorAlert

\* C7: after a loadPark of ParkContainer whose request failed (a rejected
\* fetch or a non-ok response) lots, slots and slotTypes are all empty and the
\* error alert is open; and at any time the three are either all empty or all
\* converted from one and the same answer.
C7_ErrorHandling ==
    comp = "ParkContainer" =>
        /\ last.op = "loadPark" /\ last.failed
               => /\ lots = <<>> /\ slots = <<>> /\ slotTypes = <<>>
                  /\ alertOpen /\ alertProps = ErrorAlert
        /\ \/ lots = <<>> /\ slots = <<>> /\ slotTypes = <<>>
           \/ /\ shown.kind = "lots"
              /\ lots = lotsConverted(shown)
              /\ slots = slotsConverted(shown)
              /\ slotTypes = slotTypesConverted(shown)

\* A ParkContainer that showed slots has them cleared by a failed loadPark.
C7_Witness ==
    /\ comp = "ParkContainer"
    /\ last.op = "loadPark" /\ last.failed /\ last.hadSlots
    /\ slots = <<>> /\ alertOpen

\* the backend status of a converted slot in the answer it was converted from
BackendStatus(data, slot) ==
    LET i == CHOOSE i \in 1..Len(data.lots) : LotCodeOf(i) = slot.id_lot
        j == CHOOSE j \in 1..Len(data.lots[i].slots) : SlotCodeOf(j) = slot.id_slot
    IN data.lots[i].slots[j].status

\* C10: for every slot loaded from the backend SlotCard and LotCard show the
\* same label, which is "Disponível" exactly when the backend status of the
\* slot is "FREE" and "Ocupado" otherwise.
C10_Claim ==
    comp \in ParkComps /\ shown.kind = "lots" =>
        \A k \in 1..Len(slots) :
            /\ SlotCard(slots[k]) = LotCard(slots[k])
            /\ SlotCard(slots[k]) =
                   (IF BackendStatus(shown, slots[k]) = "FREE"
                    THEN "Disponível" ELSE "Ocupado")

(***************************************************************************)
(* Properties of the server actions                                        *)
(***************************************************************************)
\* C8: a login that has finished has returned, never thrown; after a
\* successful request both cookies hold the tokens of the answer and the
\* result is { ok: true }; after a failed request (an HTTP error or no
\* response) the cookies are as they were and the result is { ok: false,
\* message } with a non-empty message.
C8_Login ==
    auth.kind = "login" /\ auth.pc = "done" =>
        /\ auth.ret.how = "return"
        /\ auth.outcome.k = "ok" =>
               /\ cookies = [accessToken |-> Cookie(auth.outcome.access),
                             refreshToken |-> Cookie(auth.outcome.refresh)]
               /\ auth.ret = [how |-> "return", ok |-> TRUE]
        /\ auth.outcome.k # "ok" =>
               /\ cookies = auth.jar0
               /\ auth.ret.ok = FALSE
               /\ auth.ret.message # ""

\* A login without an HTTP response has returned { ok: false, message }.
C8_Witness ==
    /\ auth.kind = "login" /\ auth.pc = "done"
    /\ auth.outcome.k = "network"
    /\ auth.ret = [how |-> "return", ok |-> FALSE, message |-> "Erro no tentar entrar"]

\* C9: a register that has finished has returned an object { ok, ... }, never
\* thrown; after a successful request both cookies hold the tokens of the
\* answer and ok is true; after every failed request, one without an HTTP
\* response included, ok is false and the cookies are as they were.
C9_Claim ==
    auth.kind = "register" /\ auth.pc = "done" =>
        /\ auth.ret.how = "return"
        /\ auth.outcome.k = "ok" =>
               /\ cookies = [accessToken |-> Cookie(auth.outcome.access),
                             refreshToken |-> Cookie(auth.outcome.refresh)]
               /\ auth.ret = [how |-> "return", ok |-> TRUE]
        /\ auth.outcome.k # "ok" =>
               /\ cookies = auth.jar0
               /\ auth.ret.ok = FALSE

(***************************************************************************)
(* Properties of getUser                                                   *)
(***************************************************************************)
\* the status of the response apiFetch returned to getUser
FinalStatus(call) == IF call.ret.which = 2 THEN call.res2 ELSE call.res1

\* C17: a getUser that was called without an accessToken cookie (it has
\* expired) while a non-empty refreshToken cookie was there, and none of
\* whose requests was rejected or refused by the refresh endpoint, has sent a
\* refresh request and has returned isLogged: true.
C17_Claim ==
    /\ auth.kind = "getUser" /\ auth.pc = "done"
    /\ ~auth.jar0.accessToken.set
    /\ Truthy(getRefreshToken(auth.jar0))
    /\ \A c \in Calls : calls[c].rfr.k \in {"none", "ok"} /\ calls[c].ret # Thrown
    => /\ auth.ret.isLogged
       /\ \E c \in Calls : RefreshRequests(calls[c]) # {}

\* C18: a getUser that was called without an accessToken cookie, or with an
\* empty one, has returned { isLogged: false, user: null } and no wrapper was
\* called, so that no request went out; and whatever getUser returns,
\* isLogged is true exactly when user is not null.
C18_NoToken ==
    auth.kind = "getUser" =>
        /\ ~Truthy(getAccessToken(auth.jar0)) =>
               /\ auth.pc = "done" /\ auth.ret = NotLogged
               /\ \A c \in Calls : calls[c].pc = "idle" /\ calls[c].reqs = <<>>
        /\ auth.pc = "done" =>
               /\ auth.ret.how = "return"
               /\ auth.ret.isLogged <=> auth.ret.user # JNull

\* getUser has returned not logged for an empty accessToken cookie although a
\* refreshToken cookie was there.
C18_Witness ==
    /\ auth.kind = "getUser" /\ auth.pc = "done"
    /\ auth.jar0.accessToken = Cookie(<<>>)
    /\ auth.jar0.refreshToken = Cookie(<<"a">>)
    /\ auth.ret = NotLogged

\* C19: a getUser that has returned isLogged: true got a 2xx response of the
\* profile request in the end; one whose apiFetch returned a non-ok response
\* (the 401 after a failed refresh, or any other non-ok status) has returned
\* { isLogged: false, user: null }.
C19_Claim ==
    auth.kind = "getUser" /\ auth.pc = "done" =>
        \A c \in Calls :
            /\ auth.ret.isLogged =>
                   /\ calls[c].ret.how = "response"
                   /\ Ok(FinalStatus(calls[c]))
            /\ calls[c].ret.how = "response" /\ ~Ok(FinalStatus(calls[c])) =>
                   auth.ret = NotLogged

(***************************************************************************)
(* Properties of the route guard                                           *)
(***************************************************************************)
\* C20: every request whose pathname starts with /profile or /saved and that
\* comes without an accessToken cookie, or with an empty one, is answered by
\* the middleware, with a redirect to /login; it is not passed on to the page.
C20_Claim ==
    /\ nav.pc = "answered"
    /\ \E route \in PROTECTED_ROUTES : startsWith(nav.path, route)
    /\ ~Truthy(getAccessToken(cookies))
    => /\ nav.by = "middleware"
       /\ nav.answer = Redirect("/login")

(***************************************************************************)
(* Properties of overlapping loads                                         *)
(***************************************************************************)
\* the step in which the answer to load call id arrives
Answered(id) == id \in pending /\ id \notin pending'

\* a call started after call id has been answered already
Overtaken(id) == \E j \in 1..Len(started) : j > id /\ j \notin pending

\* C21: in ParkContainer and Header the answer to a loadPark call that was
\* overtaken (a call started after it has been answered already) changes
\* nothing of lots, slots, slotTypes and the alert, so that the state shown
\* stays that of the most recently started request; and no answer changes
\* them once the component is unmounted.
C21_Claim ==
    [][\A id \in 1..Len(started) :
          /\ comp \in ParkComps /\ Answered(id)
          /\ Overtaken(id) \/ phase = "unmounted"
          => UNCHANGED <<lots, slots, slotTypes, alertOpen, alertProps>>]_vars

(***************************************************************************)
(* Properties of the login and register pages                              *)
(***************************************************************************)
\* C22: a submit handler of the login or register page that has ended has not
\* thrown; after a successful submit the success alert is open and the
\* navigation timer is set to 2500 ms, and the page navigates to "/" in the
\* end; after a failed submit the error alert is open with a non-empty
\* message, the one the server action returned when it returned one, and no
\* navigation is set or done.
C22_Claim ==
    /\ [](page.pc = "done" =>
            /\ ~page.threw
            /\ auth.outcome.k = "ok" =>
                   /\ alertOpen /\ alertProps.type = "success"
                   /\ page.timer = 2500
            /\ auth.outcome.k # "ok" =>
                   /\ alertOpen /\ alertProps.type = "error"
                   /\ alertProps.message # ""
                   /\ auth.ret.how = "return" =>
                          alertProps.message = auth.ret.message
                   /\ page.timer = 0 /\ ~page.replaced)
    /\ (page.pc = "done" /\ auth.outcome.k = "ok") ~> page.replaced

====
